---- MODULE Spec2Model ----
(***************************************************************************)
(* Model of the nmap gateway of src/src/mcp-security/mcp-security.py: the  *)
(* catalog tools that build an argument list for run_nmap_command, the     *)
(* executor run_nmap_command itself, and execute_custom_nmap_command.      *)
(*                                                                         *)
(* A text is a sequence of characters.  A character is a record            *)
(* [c, src]: c is the character (a fixed piece of program text is kept as  *)
(* one character holding the whole piece), src says where it came from:    *)
(* "lit" for text written in the program, the parameter's name for a value *)
(* supplied by the caller, "stdout" / "stderr" for what the process wrote. *)
(***************************************************************************)
EXTENDS Integers, Sequences, FiniteSets, TLC

\* ------------------------------------------------------------------ bounds
MaxArgLen == 1      \* longest caller-supplied string
MaxOutLen == 2      \* longest text the process writes to stdout
MaxLimit == 2       \* largest explicit integer argument (besides the defaults)
MaxHostsLen == 3    \* longest host list given to scan_multiple_hosts

\* --------------------------------------------------------------- constants
CATALOG_TIMEOUT == 60
RAW_TIMEOUT == 120
DEFAULT_LIMIT == 10
DEFAULT_NUM_PORTS == 10

\* ------------------------------------------------------------------- texts
Ch(c, src) == [c |-> c, src |-> src]
L(s) == <<Ch(s, "lit")>>
Q1 == L("'")
Q2 == L("\"")
Tag(src, s) == [i \in 1..Len(s) |-> Ch(s[i], src)]

StringsUpTo(chars, n) == UNION {[1..k -> chars] : k \in 0..n}

UserChars == {"a", " ", ";"}
OutChars == {"x", "\n"}
UserStrings == StringsUpTo(UserChars, MaxArgLen)
HostChars == {"a", "b", " "}
HostLists == UserStrings \cup StringsUpTo(HostChars, MaxHostsLen)
StdoutTexts == {Tag("stdout", s) : s \in StringsUpTo(OutChars, MaxOutLen)}
StderrTexts == {<<>>, Tag("stderr", <<"e">>)}
ReturnCodes == {0, 1}

\* str(n) for an integer n
DigitChars == <<"0", "1", "2", "3", "4", "5", "6", "7", "8", "9">>
RECURSIVE Digits(_)
Digits(n) == IF n < 10 THEN <<DigitChars[n + 1]>>
             ELSE Digits(n \div 10) \o <<DigitChars[(n % 10) + 1]>>
PyStrInt(n, src) == Tag(src, IF n < 0 THEN <<"-">> \o Digits(-n) ELSE Digits(n))

\* repr(s) for a string s, and str(list) for a list of strings
HasChar(s, c) == \E i \in 1..Len(s) : s[i].c = c
RECURSIVE Escaped(_, _)
Escaped(s, quote) ==
    IF s = <<>> THEN <<>>
    ELSE LET h == Head(s)
             e == IF h.c = "\\" THEN <<h, h>>
                  ELSE IF h.c = quote THEN <<Ch("\\", h.src), h>>
                  ELSE IF h.c = "\n" THEN <<Ch("\\", h.src), Ch("n", h.src)>>
                  ELSE <<h>>
         IN  e \o Escaped(Tail(s), quote)
PyRepr(s) ==
    IF HasChar(s, "'") /\ ~HasChar(s, "\"")
    THEN Q2 \o Escaped(s, "\"") \o Q2
    ELSE Q1 \o Escaped(s, "'") \o Q1
RECURSIVE ReprItems(_)
ReprItems(list) ==
    IF list = <<>> THEN <<>>
    ELSE IF Len(list) = 1 THEN PyRepr(list[1])
    ELSE PyRepr(list[1]) \o L(", ") \o ReprItems(Tail(list))
PyStrList(list) == L("[") \o ReprItems(list) \o L("]")

\* str.splitlines(), "\n".join(lines) and lines[:limit]
IsLineBreak(ch) == ch.c = "\n"
RECURSIVE SplitFrom(_, _, _)
SplitFrom(s, i, cur) ==
    IF i > Len(s) THEN (IF cur = <<>> THEN <<>> ELSE <<cur>>)
    ELSE IF IsLineBreak(s[i]) THEN <<cur>> \o SplitFrom(s, i + 1, <<>>)
    ELSE SplitFrom(s, i + 1, Append(cur, s[i]))
splitlines(s) == SplitFrom(s, 1, <<>>)
RECURSIVE join(_, _)
join(sep, lines) ==
    IF lines = <<>> THEN <<>>
    ELSE IF Len(lines) = 1 THEN lines[1]
    ELSE lines[1] \o sep \o join(sep, Tail(lines))
SliceStop(n, limit) ==
    IF limit < 0 THEN (IF n + limit < 0 THEN 0 ELSE n + limit)
    ELSE IF limit > n THEN n ELSE limit
SliceTo(lines, limit) == SubSeq(lines, 1, SliceStop(Len(lines), limit))

\* ------------------------------------------------- the catalog's builders
\* Each tool is the argument list it hands to run_nmap_command.
simple_scan(target) == <<L("-T4"), target>>
\* port_scan with the two values in each other's place
port_scan_swapped(target, ports) == <<L("-p"), target, L("-T4"), ports>>
port_scan(target, ports) == <<L("-p"), ports, L("-T4"), target>>
os_detection(target) == <<L("-O"), target>>
full_scan(target) == <<L("-sS"), L("-sV"), L("-T4"), L("-A"), target>>
ping_scan(target) == <<L("-sn"), target>>
scan_specific_port(target, port) == <<L("-p"), port, L("-T4"), target>>
service_version_detection(target) == <<L("-sV"), target>>
aggressive_scan(target) == <<L("-A"), target>>
scan_port_range(target, port_range) == <<L("-p"), port_range, L("-T4"), target>>
http_title_scan(target) == <<L("-p"), L("80"), L("--script"), L("http-title"), target>>
traceroute_scan(target) == <<L("--traceroute"), target>>
vulscan_basic(target, database) ==
    << L("-sV"), L("--script=vulscan/vulscan.nse"), L("--script-args"),
       Q2 \o L("vulscandb=") \o database \o Q2,
       target >>
command_args(target, database) ==
    << L("-sV"), L("--script=vulscan/vulscan.nse"), L("--script-args"),
       Q2 \o L("vulscandb=") \o database \o L(",vulscanshowall=0,vulscanoutput=")
          \o Q1 \o L("{id} - {title}") \o Q1 \o Q2,
       target >>
vulscan_interactive(target, database) ==
    << L("-sV"), L("--script=vulscan/vulscan.nse"), L("--script-args"),
       Q2 \o L("vulscandb=") \o database \o L(",vulscaninteractive=1") \o Q2,
       target >>
vulscan_custom_output(target, database, custom_template) ==
    << L("-sV"), L("--script=vulscan/vulscan.nse"), L("--script-args"),
       Q2 \o L("vulscandb=") \o database \o L(",vulscanoutput=")
          \o Q1 \o custom_template \o Q1 \o Q2,
       target >>
ping_subnet_scan(subnet) == <<L("-sP"), subnet>>
single_host_scan(target) == <<target>>
stealth_scan(target) == <<L("-sS"), target>>
\* str.split(): the maximal runs of non-whitespace characters
IsSpace(ch) == ch.c \in {" ", "\n", "\t", "\r", "\f"}
RECURSIVE SplitWs(_, _, _)
SplitWs(s, i, cur) ==
    IF i > Len(s) THEN (IF cur = <<>> THEN <<>> ELSE <<cur>>)
    ELSE IF IsSpace(s[i])
         THEN (IF cur = <<>> THEN <<>> ELSE <<cur>>) \o SplitWs(s, i + 1, <<>>)
         ELSE SplitWs(s, i + 1, Append(cur, s[i]))
split(s) == SplitWs(s, 1, <<>>)
\* scan_multiple_hosts passing the list as one argument
scan_multiple_hosts_whole(hosts) == <<hosts>>
scan_multiple_hosts(hosts) == split(hosts)
scan_ip_range(ip_range) == <<ip_range>>
scan_tcp_port(target, port) == <<L("-p"), port, target>>
scan_top_ports(target, num_ports) ==
    <<L("--top-ports"), PyStrInt(num_ports, "num_ports"), target>>
scan_from_file(file_path) == <<L("-iL"), file_path>>
verbose_scan(target) == <<L("-v"), target>>
scan_with_normal_output(target, output_file) == <<L("-oN"), output_file, target>>
scan_with_xml_output(target, output_file) == <<L("-oX"), output_file, target>>
scan_with_all_formats(target, output_base) == <<L("-oA"), output_base, target>>
nmap_help == <<L("-h")>>
udp_scan(target) == <<L("-sU"), target>>
fin_scan(target) == <<L("-sF"), target>>
xmas_scan(target) == <<L("-sX"), target>>
null_scan(target) == <<L("-sN"), target>>
tcp_connect_scan(target) == <<L("-sT"), target>>
stealth_scan_no_ping(target) == <<L("-sS"), L("-Pn"), target>>
tcp_connect_scan_no_ping(target) == <<L("-sT"), L("-Pn"), target>>
udp_scan_no_ping(target) == <<L("-sU"), L("-Pn"), target>>
service_version_scan_no_ping(target) == <<L("-sV"), L("-Pn"), target>>
aggressive_scan_no_ping(target) == <<L("-A"), L("-Pn"), target>>
port_scan_no_ping(target, ports) == <<L("-p"), ports, L("-Pn"), target>>
fin_scan_no_ping(target) == <<L("-sF"), L("-Pn"), target>>
xmas_scan_no_ping(target) == <<L("-sX"), L("-Pn"), target>>
null_scan_no_ping(target) == <<L("-sN"), L("-Pn"), target>>
top_ports_scan_no_ping(target, num_ports) ==
    <<L("--top-ports"), PyStrInt(num_ports, "num_ports"), L("-Pn"), target>>

\* ------------------------------------------------------------ the registry
\* The tools registered with @mcp.tool(): name -> declared parameters.
Signature ==
    [ simple_scan |-> <<"target">>,
      port_scan |-> <<"target", "ports">>,
      os_detection |-> <<"target">>,
      full_scan |-> <<"target">>,
      ping_scan |-> <<"target">>,
      scan_specific_port |-> <<"target", "port">>,
      service_version_detection |-> <<"target">>,
      aggressive_scan |-> <<"target">>,
      scan_port_range |-> <<"target", "port_range">>,
      http_title_scan |-> <<"target">>,
      traceroute_scan |-> <<"target">>,
      vulscan_basic |-> <<"target", "database">>,
      vulscan_output_limit |-> <<"target", "database", "limit">>,
      vulscan_interactive |-> <<"target", "database">>,
      vulscan_custom_output |-> <<"target", "database", "custom_template">>,
      ping_subnet_scan |-> <<"subnet">>,
      single_host_scan |-> <<"target">>,
      stealth_scan |-> <<"target">>,
      scan_multiple_hosts |-> <<"hosts">>,
      scan_ip_range |-> <<"ip_range">>,
      scan_tcp_port |-> <<"target", "port">>,
      scan_top_ports |-> <<"target", "num_ports">>,
      scan_from_file |-> <<"file_path">>,
      verbose_scan |-> <<"target">>,
      scan_with_normal_output |-> <<"target", "output_file">>,
      scan_with_xml_output |-> <<"target", "output_file">>,
      scan_with_all_formats |-> <<"target", "output_base">>,
      nmap_help |-> <<>>,
      udp_scan |-> <<"target">>,
      fin_scan |-> <<"target">>,
      xmas_scan |-> <<"target">>,
      null_scan |-> <<"target">>,
      tcp_connect_scan |-> <<"target">>,
      stealth_scan_no_ping |-> <<"target">>,
      tcp_connect_scan_no_ping |-> <<"target">>,
      udp_scan_no_ping |-> <<"target">>,
      service_version_scan_no_ping |-> <<"target">>,
      aggressive_scan_no_ping |-> <<"target">>,
      port_scan_no_ping |-> <<"target", "ports">>,
      fin_scan_no_ping |-> <<"target">>,
      xmas_scan_no_ping |-> <<"target">>,
      null_scan_no_ping |-> <<"target">>,
      top_ports_scan_no_ping |-> <<"target", "num_ports">>,
      execute_custom_nmap_command |-> <<"command">> ]
Tools == DOMAIN Signature
RawTool == "execute_custom_nmap_command"
CatalogTools == Tools \ {RawTool}
IntParams == {"limit", "num_ports"}
ParamNames(tool) == {Signature[tool][i] : i \in 1..Len(Signature[tool])}
StrParamNames(tool) == ParamNames(tool) \ IntParams

\* Default with target declared as target: str = "localhost"
Default_target(tool, param) ==
    IF param = "target" THEN <<Tag("default", <<"localhost">>)>>
    ELSE IF param = "database" THEN <<Tag("default", <<"cve.csv">>)>>
    ELSE IF param = "custom_template" THEN <<Tag("default", <<"{id} - {title}">>)>>
    ELSE IF param = "output_file" /\ tool = "scan_with_normal_output"
         THEN <<Tag("default", <<"output.txt">>)>>
    ELSE IF param = "output_file" /\ tool = "scan_with_xml_output"
         THEN <<Tag("default", <<"output.xml">>)>>
    ELSE IF param = "output_base" THEN <<Tag("default", <<"output">>)>>
    ELSE IF param = "limit" THEN <<DEFAULT_LIMIT>>
    ELSE IF param = "num_ports" THEN <<DEFAULT_NUM_PORTS>>
    ELSE <<>>
\* The default a declaration gives a parameter: <<>> when it gives none,
\* else the one-element tuple of the value.
Default(tool, param) ==
    IF param = "database" THEN <<Tag("default", <<"cve.csv">>)>>
    ELSE IF param = "custom_template" THEN <<Tag("default", <<"{id} - {title}">>)>>
    ELSE IF param = "output_file" /\ tool = "scan_with_normal_output"
         THEN <<Tag("default", <<"output.txt">>)>>
    ELSE IF param = "output_file" /\ tool = "scan_with_xml_output"
         THEN <<Tag("default", <<"output.xml">>)>>
    ELSE IF param = "output_base" THEN <<Tag("default", <<"output">>)>>
    ELSE IF param = "limit" THEN <<DEFAULT_LIMIT>>
    ELSE IF param = "num_ports" THEN <<DEFAULT_NUM_PORTS>>
    ELSE <<>>

\* The argument list a catalog tool hands to run_nmap_command.
Args(tool, a) ==
    CASE tool = "simple_scan" -> simple_scan(a.target)
      [] tool = "port_scan" -> port_scan(a.target, a.ports)
      [] tool = "os_detection" -> os_detection(a.target)
      [] tool = "full_scan" -> full_scan(a.target)
      [] tool = "ping_scan" -> ping_scan(a.target)
      [] tool = "scan_specific_port" -> scan_specific_port(a.target, a.port)
      [] tool = "service_version_detection" -> service_version_detection(a.target)
      [] tool = "aggressive_scan" -> aggressive_scan(a.target)
      [] tool = "scan_port_range" -> scan_port_range(a.target, a.port_range)
      [] tool = "http_title_scan" -> http_title_scan(a.target)
      [] tool = "traceroute_scan" -> traceroute_scan(a.target)
      [] tool = "vulscan_basic" -> vulscan_basic(a.target, a.database)
      [] tool = "vulscan_output_limit" -> command_args(a.target, a.database)
      [] tool = "vulscan_interactive" -> vulscan_interactive(a.target, a.database)
      [] tool = "vulscan_custom_output" ->
            vulscan_custom_output(a.target, a.database, a.custom_template)
      [] tool = "ping_subnet_scan" -> ping_subnet_scan(a.subnet)
      [] tool = "single_host_scan" -> single_host_scan(a.target)
      [] tool = "stealth_scan" -> stealth_scan(a.target)
      [] tool = "scan_multiple_hosts" -> scan_multiple_hosts(a.hosts)
      [] tool = "scan_ip_range" -> scan_ip_range(a.ip_range)
      [] tool = "scan_tcp_port" -> scan_tcp_port(a.target, a.port)
      [] tool = "scan_top_ports" -> scan_top_ports(a.target, a.num_ports)
      [] tool = "scan_from_file" -> scan_from_file(a.file_path)
      [] tool = "verbose_scan" -> verbose_scan(a.target)
      [] tool = "scan_with_normal_output" -> scan_with_normal_output(a.target, a.output_file)
      [] tool = "scan_with_xml_output" -> scan_with_xml_output(a.target, a.output_file)
      [] tool = "scan_with_all_formats" -> scan_with_all_formats(a.target, a.output_base)
      [] tool = "nmap_help" -> nmap_help
      [] tool = "udp_scan" -> udp_scan(a.target)
      [] tool = "fin_scan" -> fin_scan(a.target)
      [] tool = "xmas_scan" -> xmas_scan(a.target)
      [] tool = "null_scan" -> null_scan(a.target)
      [] tool = "tcp_connect_scan" -> tcp_connect_scan(a.target)
      [] tool = "stealth_scan_no_ping" -> stealth_scan_no_ping(a.target)
      [] tool = "tcp_connect_scan_no_ping" -> tcp_connect_scan_no_ping(a.target)
      [] tool = "udp_scan_no_ping" -> udp_scan_no_ping(a.target)
      [] tool = "service_version_scan_no_ping" -> service_version_scan_no_ping(a.target)
      [] tool = "aggressive_scan_no_ping" -> aggressive_scan_no_ping(a.target)
      [] tool = "port_scan_no_ping" -> port_scan_no_ping(a.target, a.ports)
      [] tool = "fin_scan_no_ping" -> fin_scan_no_ping(a.target)
      [] tool = "xmas_scan_no_ping" -> xmas_scan_no_ping(a.target)
      [] tool = "null_scan_no_ping" -> null_scan_no_ping(a.target)
      [] tool = "top_ports_scan_no_ping" -> top_ports_scan_no_ping(a.target, a.num_ports)

\* The parameters a call must give: those declared without a default.
Required(tool) == {p \in ParamNames(tool) : Default(tool, p) = <<>>}

\* --------------------------------------------------- the caller's arguments
\* A call gives every parameter a value; a parameter with a default may be
\* left out, and then has the default.
Omitted == <<"<omitted>">>
StrChoices(tool) ==
    IF tool = "scan_multiple_hosts" THEN [{"hosts"} -> HostLists]
    ELSE
    { f \in [StrParamNames(tool) -> UserStrings \cup {Omitted}] :
        \A p \in StrParamNames(tool) : f[p] = Omitted => Default(tool, p) # <<>> }
IntChoices(tool) ==
    IF ParamNames(tool) \cap IntParams = {} THEN {0}
    ELSE (-1..MaxLimit)
         \cup {Default(tool, CHOOSE p \in ParamNames(tool) \cap IntParams : TRUE)[1]}
Bind(tool, strs, n) ==
    [ p \in ParamNames(tool) |->
        IF p \in IntParams THEN n
        ELSE IF strs[p] = Omitted THEN Default(tool, p)[1]
        ELSE Tag(p, strs[p]) ]
Arguments(tool) ==
    { Bind(tool, strs, n) : strs \in StrChoices(tool), n \in IntChoices(tool) }
\* The parameters whose value in a is the caller's, not the default.
Supplied(tool, a) ==
    {p \in ParamNames(tool) : Default(tool, p) = <<>> \/ a[p] # Default(tool, p)[1]}

\* ------------------------------------------------------------ the executor
\* The exception classes subprocess.run raises here, with their base classes.
Bases ==
    [ TimeoutExpired |-> {"TimeoutExpired", "SubprocessError", "Exception"},
      FileNotFoundError |-> {"FileNotFoundError", "OSError", "Exception"},
      OSError |-> {"OSError", "Exception"} ]
isinstance(cls, base) == base \in Bases[cls]
Faults == {"FileNotFoundError", "OSError"}

\* run_nmap_command asking for a shell
nmap_call_shell(args) ==
    [ cmd |-> <<L("nmap")>> \o args,
      kwargs |-> [shell |-> TRUE, capture_output |-> TRUE, text |-> TRUE,
                  timeout |-> 60] ]
\* The call subprocess.run(cmd, **kwargs) of run_nmap_command ...
nmap_call(args) ==
    [ cmd |-> <<L("nmap")>> \o args,
      kwargs |-> [capture_output |-> TRUE, text |-> TRUE, timeout |-> CATALOG_TIMEOUT] ]
\* execute_custom_nmap_command putting the binary's name before the command
raw_call_prefixed(command) ==
    [ cmd |-> L("nmap ") \o command,
      kwargs |-> [shell |-> TRUE, capture_output |-> TRUE, text |-> TRUE,
                  timeout |-> 120] ]
\* ... and of execute_custom_nmap_command.
raw_call(command) ==
    [ cmd |-> command,
      kwargs |-> [shell |-> TRUE, capture_output |-> TRUE, text |-> TRUE,
                  timeout |-> RAW_TIMEOUT] ]
UsesShell(req) == "shell" \in DOMAIN req.kwargs /\ req.kwargs.shell

\* str(e) of the exception subprocess.run raises for the call req
StrExc(cls, req) ==
    IF cls = "TimeoutExpired"
    THEN L("Command '") \o (IF UsesShell(req) THEN req.cmd ELSE PyStrList(req.cmd))
         \o L("' timed out after ") \o PyStrInt(req.kwargs.timeout, "lit")
         \o L(" seconds")
    ELSE IF cls = "FileNotFoundError"
    THEN L("[Errno 2] No such file or directory: ")
         \o PyRepr(IF UsesShell(req) THEN L("/bin/sh") ELSE req.cmd[1])
    ELSE L("[Errno 12] Cannot allocate memory")

\* The processes of a call that run when its timeout expires: the one
\* subprocess.run created (nmap, or the shell for shell=True) and, under a
\* shell, the process the shell may have started for the command.
Child(req) == IF UsesShell(req) THEN "sh" ELSE "nmap"
ProcessTrees(req) ==
    IF UsesShell(req) THEN {{"sh"}, {"sh", "command"}} ELSE {{"nmap"}}
\* On expiry subprocess.run kills the process it created and no other.
kill(req, tree) == tree \ {Child(req)}

\* What subprocess.run does: a CompletedProcess, or an exception (a
\* TimeoutExpired carries the output captured until expiry).
Completed(stdout, stderr, returncode) ==
    [ kind |-> "completed", cls |-> "none", stdout |-> stdout, stderr |-> stderr,
      returncode |-> returncode, msg |-> <<>> ]
Raised(cls, req, partial) ==
    [ kind |-> "raised", cls |-> cls, stdout |-> partial, stderr |-> <<>>,
      returncode |-> 0, msg |-> StrExc(cls, req) ]

\* What a function gives its caller: a returned text, or a propagated exception.
Return(text) == [kind |-> "return", text |-> text]
Raise(o) == [kind |-> "raise", text |-> o.msg]
None == [kind |-> "none", text |-> <<>>]

\* run_nmap_command appending the output captured before the exception
run_nmap_command_leaky(o) ==
    IF o.kind = "completed" THEN Return(o.stdout)
    ELSE Return(L("Error running Nmap: ") \o o.msg \o o.stdout)
\* run_nmap_command catching subprocess.TimeoutExpired only
run_nmap_command_narrow(o) ==
    IF o.kind = "completed" THEN Return(o.stdout)
    ELSE IF isinstance(o.cls, "TimeoutExpired")
         THEN Return(L("Error running Nmap: ") \o o.msg)
         ELSE Raise(o)
\* run_nmap_command treating a non-zero exit status as an error
run_nmap_command_check(o) ==
    IF o.kind = "completed"
    THEN (IF o.returncode = 0 THEN Return(o.stdout)
          ELSE Return(L("Error running Nmap: ") \o L("non-zero exit status")))
    ELSE Return(L("Error running Nmap: ") \o o.msg)
run_nmap_command(o) ==
    IF o.kind = "completed" THEN Return(o.stdout)
    ELSE IF isinstance(o.cls, "Exception")
         THEN Return(L("Error running Nmap: ") \o o.msg)
         ELSE Raise(o)

\* vulscan_output_limit keeping one line too many
vulscan_output_limit_inclusive(full_output, limit) ==
    IF full_output.kind = "raise" THEN full_output
    ELSE Return(join(L("\n"), SliceTo(splitlines(full_output.text), limit + 1)))
vulscan_output_limit(full_output, limit) ==
    IF full_output.kind = "raise" THEN full_output
    ELSE LET output_lines == splitlines(full_output.text)
             limited_results == join(L("\n"), SliceTo(output_lines, limit))
         IN  Return(limited_results)

NO_OUTPUT == L("Command executed successfully with no output.")
\* execute_custom_nmap_command reporting the exit code only when nothing was written
execute_custom_nmap_command_quiet_code(o) ==
    IF o.kind = "completed"
    THEN LET out1 == IF o.stdout # <<>>
                     THEN L("STDOUT:\n") \o o.stdout \o L("\n") ELSE <<>>
             out2 == IF o.stderr # <<>>
                     THEN out1 \o L("STDERR:\n") \o o.stderr \o L("\n") ELSE out1
             output == IF out2 = <<>> /\ o.returncode # 0
                       THEN L("Return Code: ")
                            \o PyStrInt(o.returncode, "returncode") \o L("\n")
                       ELSE out2
         IN  Return(IF output # <<>> THEN output ELSE NO_OUTPUT)
    ELSE IF isinstance(o.cls, "TimeoutExpired")
         THEN Return(L("Error: Command timed out after 120 seconds"))
    ELSE Return(L("Error executing command: ") \o o.msg)
\* execute_custom_nmap_command writing the stderr section first
execute_custom_nmap_command_stderr_first(o) ==
    IF o.kind = "completed"
    THEN LET out1 == IF o.stderr # <<>>
                     THEN L("STDERR:\n") \o o.stderr \o L("\n") ELSE <<>>
             out2 == IF o.stdout # <<>>
                     THEN out1 \o L("STDOUT:\n") \o o.stdout \o L("\n") ELSE out1
             output == IF o.returncode # 0
                       THEN out2 \o L("Return Code: ")
                                 \o PyStrInt(o.returncode, "returncode") \o L("\n")
                       ELSE out2
         IN  Return(IF output # <<>> THEN output ELSE NO_OUTPUT)
    ELSE IF isinstance(o.cls, "TimeoutExpired")
         THEN Return(L("Error: Command timed out after 120 seconds"))
    ELSE Return(L("Error executing command: ") \o o.msg)
\* execute_custom_nmap_command with the handler for Exception only
execute_custom_nmap_command_one_handler(o) ==
    IF o.kind = "completed"
    THEN LET out1 == IF o.stdout # <<>>
                     THEN L("STDOUT:\n") \o o.stdout \o L("\n") ELSE <<>>
             out2 == IF o.stderr # <<>>
                     THEN out1 \o L("STDERR:\n") \o o.stderr \o L("\n") ELSE out1
             output == IF o.returncode # 0
                       THEN out2 \o L("Return Code: ")
                                 \o PyStrInt(o.returncode, "returncode") \o L("\n")
                       ELSE out2
         IN  Return(IF output # <<>> THEN output ELSE NO_OUTPUT)
    ELSE Return(L("Error executing command: ") \o o.msg)
execute_custom_nmap_command(o) ==
    IF o.kind = "completed"
    THEN LET out1 == IF o.stdout # <<>>
                     THEN L("STDOUT:\n") \o o.stdout \o L("\n") ELSE <<>>
             out2 == IF o.stderr # <<>>
                     THEN out1 \o L("STDERR:\n") \o o.stderr \o L("\n") ELSE out1
             output == IF o.returncode # 0
                       THEN out2 \o L("Return Code: ")
                                 \o PyStrInt(o.returncode, "returncode") \o L("\n")
                       ELSE out2
         IN  Return(IF output # <<>> THEN output ELSE NO_OUTPUT)
    ELSE IF isinstance(o.cls, "TimeoutExpired")
         THEN Return(L("Error: Command timed out after 120 seconds"))
    ELSE IF isinstance(o.cls, "Exception")
         THEN Return(L("Error executing command: ") \o o.msg)
    ELSE Raise(o)

\* The value a tool gives its caller once subprocess.run has ended with o.
ToolResult(tool, a, o) ==
    IF tool = RawTool THEN execute_custom_nmap_command(o)
    ELSE IF tool = "vulscan_output_limit"
         THEN vulscan_output_limit(run_nmap_command(o), a.limit)
         ELSE run_nmap_command(o)

\* ------------------------------------------------------------------- state
VARIABLES
    pc,          \* "idle", "running" (inside subprocess.run), "returned", "raised",
                 \* "rejected" (the call did not bind to the tool's parameters)
    op,          \* the tool called
    params,      \* its arguments, by parameter name
    request,     \* the subprocess.run call made
    outcome,     \* what subprocess.run did
    run_result,  \* what run_nmap_command gave the tool (catalog tools)
    result,      \* what the tool gave its caller
    run_calls,   \* how many times the call has entered subprocess.run
    live,        \* the processes the call started that are still running
    given,       \* the parameters the caller gave a value
    \* Calls in progress at the same time, one per caller:
    cpc,         \* caller -> "idle", "bound", "running", "got", "returned"
    cin,         \* caller -> the tool it called and the arguments it passed
    creq,        \* caller -> the subprocess.run call made for it
    cproc,       \* caller -> what the process of its call did
    cres,        \* caller -> what the tool gave it
    store        \* frame -> the local variables held there
seqvars == <<pc, op, params, request, outcome, run_result, result, run_calls, live,
             given>>
concvars == <<cpc, cin, creq, cproc, cres, store>>
vars == <<seqvars, concvars>>

NumCallers == 2
Callers == 1..NumCallers
\* The local variables of one activation of a tool: its parameters and
\* full_output.
FreshFrame ==
    [ target |-> <<>>, database |-> <<>>, limit |-> 0, command |-> <<>>,
      full_output |-> None ]
NoCall == [op |-> "none", params |-> <<>>]

NoRequest == [cmd |-> <<>>, kwargs |-> [timeout |-> 0]]
NoOutcome == [kind |-> "none", cls |-> "none", stdout |-> <<>>, stderr |-> <<>>,
              returncode |-> 0, msg |-> <<>>]

Init ==
    /\ pc = "idle"
    /\ op = "none"
    /\ params = <<>>
    /\ request = NoRequest
    /\ outcome = NoOutcome
    /\ run_result = None
    /\ result = None
    /\ run_calls = 0
    /\ live = {}
    /\ given = {}
    /\ cpc = [c \in Callers |-> "idle"]
    /\ cin = [c \in Callers |-> NoCall]
    /\ creq = [c \in Callers |-> NoRequest]
    /\ cproc = [c \in Callers |-> NoOutcome]
    /\ cres = [c \in Callers |-> None]
    /\ store = [f \in Callers |-> FreshFrame]

\* A catalog tool is called: it builds its argument list and run_nmap_command
\* enters subprocess.run.
CallCatalog ==
    /\ pc = "idle"
    /\ \E tool \in CatalogTools : \E a \in Arguments(tool) :
          /\ op' = tool
          /\ params' = a
          /\ given' = Supplied(tool, a)
          /\ request' = nmap_call(Args(tool, a))
    /\ pc' = "running"
    /\ run_calls' = run_calls + 1
    /\ UNCHANGED <<outcome, run_result, result, live>>
    /\ UNCHANGED concvars

\* execute_custom_nmap_command is called and enters subprocess.run.
CallRaw ==
    /\ pc = "idle"
    /\ \E a \in Arguments(RawTool) :
          /\ op' = RawTool
          /\ params' = a
          /\ given' = Supplied(RawTool, a)
          /\ request' = raw_call(a.command)
    /\ pc' = "running"
    /\ run_calls' = run_calls + 1
    /\ UNCHANGED <<outcome, run_result, result, live>>
    /\ UNCHANGED concvars

\* A tool is called without a value for one of its parameters.  When every
\* parameter left out has a default the call is the call with the defaults;
\* otherwise binding the arguments fails (TypeError) before the tool's body is
\* entered.
InvalidParameter(tool) ==
    [kind |-> "invalid", text |-> L(tool) \o L("() missing required argument")]
CallIncomplete ==
    /\ pc = "idle"
    /\ \E tool \in Tools : \E a \in Arguments(tool) : \E p \in ParamNames(tool) :
          LET g == Supplied(tool, a) \ {p}
          IN  /\ op' = tool
              /\ given' = g
              /\ IF Required(tool) \subseteq g
                 THEN LET b == [a EXCEPT ![p] = Default(tool, p)[1]]
                      IN  /\ params' = b
                          /\ request' = IF tool = RawTool THEN raw_call(b.command)
                                         ELSE nmap_call(Args(tool, b))
                          /\ pc' = "running"
                          /\ run_calls' = run_calls + 1
                          /\ result' = result
                 ELSE /\ params' = [q \in g |-> a[q]]
                      /\ request' = request
                      /\ pc' = "rejected"
                      /\ run_calls' = run_calls
                      /\ result' = InvalidParameter(tool)
    /\ UNCHANGED <<outcome, run_result, live>>
    /\ UNCHANGED concvars

\* subprocess.run ends with o and the tool runs to its end.
Finish(o) ==
    /\ outcome' = o
    /\ run_result' = IF op = RawTool THEN None ELSE run_nmap_command(o)
    /\ result' = ToolResult(op, params, o)
    /\ pc' = IF ToolResult(op, params, o).kind = "return" THEN "returned" ELSE "raised"
    /\ UNCHANGED <<op, params, request, run_calls, given>>
    /\ UNCHANGED concvars

\* The process ends by itself within the timeout; subprocess.run has waited
\* for it.
Completes ==
    /\ pc = "running"
    /\ \E stdout \in StdoutTexts, stderr \in StderrTexts, rc \in ReturnCodes :
          Finish(Completed(stdout, stderr, rc))
    /\ live' = {}

\* The timeout expires: subprocess.run kills the process it created, waits
\* for it and raises TimeoutExpired.
TimesOut ==
    /\ pc = "running"
    /\ \E partial \in StdoutTexts : Finish(Raised("TimeoutExpired", request, partial))
    /\ \E tree \in ProcessTrees(request) : live' = kill(request, tree)

\* The process could not be created.
Fails ==
    /\ pc = "running"
    /\ \E cls \in Faults : Finish(Raised(cls, request, <<>>))
    /\ live' = {}

\* The caller has the result; the next call starts from nothing.
Deliver ==
    /\ pc \in {"returned", "raised", "rejected"}
    /\ pc' = "idle"
    /\ op' = "none"
    /\ params' = <<>>
    /\ request' = NoRequest
    /\ outcome' = NoOutcome
    /\ run_result' = None
    /\ result' = None
    /\ run_calls' = 0
    /\ live' = {}
    /\ given' = {}
    /\ UNCHANGED concvars

Next == CallCatalog \/ CallRaw \/ CallIncomplete \/ Completes \/ TimesOut \/ Fails \/ Deliver
Spec == Init /\ [][Next]_vars

\* ------------------------------------------------- calls at the same time
\* The server may run several tool calls at once.  A call's parameters and
\* local variables (full_output, output_lines, limited_results) live in the
\* frame of its own activation; the module has no variable a tool assigns.
ConcTools == {"simple_scan", "vulscan_output_limit", RawTool}
ConcArguments(tool) ==
    IF tool = "vulscan_output_limit"
    THEN { Bind(tool, [target |-> <<"a">>, database |-> Omitted], n) : n \in 0..1 }
    ELSE IF tool = RawTool
         THEN { Bind(tool, [command |-> <<"a">>], 0) }
         ELSE { Bind(tool, [target |-> t], 0) : t \in {<<"a">>, <<";">>} }
ConcOutcomes(req) ==
    { Completed(Tag("stdout", <<"x">>), <<>>, 0),
      Completed(Tag("stdout", <<"x", "\n", "y">>), <<>>, 1),
      Raised("TimeoutExpired", req, <<>>) }

\* The frame holding the local variables of caller c's activation.
\* frame_global: every activation storing its variables in one place, as
\* module-level variables would be
frame_global(c) == 1
frame(c) == c

\* The arguments are bound to the parameters of the activation.
bind(fr, a) == [n \in DOMAIN fr |-> IF n \in DOMAIN a THEN a[n] ELSE fr[n]]
RequestOf(tool, a) ==
    IF tool = RawTool THEN raw_call(a.command) ELSE nmap_call(Args(tool, a))

\* Caller c calls a tool: its arguments become the parameters of a new
\* activation.
ConcCall(c) ==
    /\ cpc[c] = "idle"
    /\ \E tool \in ConcTools : \E a \in ConcArguments(tool) :
          /\ cin' = [cin EXCEPT ![c] = [op |-> tool, params |-> a]]
          /\ store' = [store EXCEPT ![frame(c)] = bind(@, a)]
    /\ cpc' = [cpc EXCEPT ![c] = "bound"]
    /\ UNCHANGED <<creq, cproc, cres, seqvars>>

\* The tool builds its command from its parameters and enters subprocess.run.
ConcRun(c) ==
    /\ cpc[c] = "bound"
    /\ creq' = [creq EXCEPT ![c] = RequestOf(cin[c].op, store[frame(c)])]
    /\ cpc' = [cpc EXCEPT ![c] = "running"]
    /\ UNCHANGED <<cin, cproc, cres, store, seqvars>>

\* The process of c's call ends.  vulscan_output_limit assigns what
\* run_nmap_command returned to full_output; every other tool returns.
ConcProcessEnds(c) ==
    /\ cpc[c] = "running"
    /\ \E o \in ConcOutcomes(creq[c]) :
          /\ cproc' = [cproc EXCEPT ![c] = o]
          /\ IF cin[c].op = "vulscan_output_limit"
             THEN /\ store' = [store EXCEPT ![frame(c)].full_output =
                                                        run_nmap_command(o)]
                  /\ cpc' = [cpc EXCEPT ![c] = "got"]
                  /\ cres' = cres
             ELSE /\ cres' = [cres EXCEPT ![c] =
                                IF cin[c].op = RawTool
                                THEN execute_custom_nmap_command(o)
                                ELSE run_nmap_command(o)]
                  /\ cpc' = [cpc EXCEPT ![c] = "returned"]
                  /\ store' = store
    /\ UNCHANGED <<cin, creq, seqvars>>

\* vulscan_output_limit cuts full_output to limit lines and returns.
ConcLimit(c) ==
    /\ cpc[c] = "got"
    /\ cres' = [cres EXCEPT ![c] = vulscan_output_limit(store[frame(c)].full_output,
                                                        store[frame(c)].limit)]
    /\ cpc' = [cpc EXCEPT ![c] = "returned"]
    /\ UNCHANGED <<cin, creq, cproc, store, seqvars>>

\* The caller has the result; the activation and its variables are gone.
ConcDeliver(c) ==
    /\ cpc[c] = "returned"
    /\ cpc' = [cpc EXCEPT ![c] = "idle"]
    /\ cin' = [cin EXCEPT ![c] = NoCall]
    /\ creq' = [creq EXCEPT ![c] = NoRequest]
    /\ cproc' = [cproc EXCEPT ![c] = NoOutcome]
    /\ cres' = [cres EXCEPT ![c] = None]
    /\ store' = [store EXCEPT ![frame(c)] = FreshFrame]
    /\ UNCHANGED seqvars

ConcCalls == \E c \in Callers : ConcCall(c)
ConcRuns == \E c \in Callers : ConcRun(c)
ConcProcessesEnd == \E c \in Callers : ConcProcessEnds(c)
ConcLimits == \E c \in Callers : ConcLimit(c)
ConcDelivers == \E c \in Callers : ConcDeliver(c)
NextConc == ConcCalls \/ ConcRuns \/ ConcProcessesEnd \/ ConcLimits \/ ConcDelivers
SpecConc == Init /\ [][NextConc]_vars

\* -------------------------------------------------------------- properties
Called == pc \in {"running", "returned", "raised"}
Ended == pc \in {"returned", "raised"}
HasSrc(t, src) == \E i \in 1..Len(t) : t[i].src = src
StartsWith(t, prefix) == Len(t) >= Len(prefix) /\ SubSeq(t, 1, Len(prefix)) = prefix
\* sub occurs in t as a whole line
HasLine(t, sub) ==
    \E i \in 1..Len(t) :
        /\ i + Len(sub) - 1 <= Len(t)
        /\ SubSeq(t, i, i + Len(sub) - 1) = sub
        /\ (i = 1 \/ t[i - 1].c = "\n")
\* the argument list the tool handed to run_nmap_command
argv == Tail(request.cmd)
UserSupplied(p) == params[p] = <<>> \/ params[p][1].src = p
ERROR_PREFIX == L("Error running Nmap: ")

\* C1: in every call of a catalog tool, each string value the caller supplied
\* is one whole element of the argument list handed to the executor, no other
\* element holds any of it, and no element joins a caller's value with text of
\* the program.
C1_EveryValueIsOneElement ==
    (Called /\ op \in CatalogTools) =>
        /\ \A p \in StrParamNames(op) :
              UserSupplied(p) =>
                 \E i \in 1..Len(argv) :
                    /\ argv[i] = params[p]
                    /\ \A j \in 1..Len(argv) : j # i => ~HasSrc(argv[j], p)
        /\ \A i \in 1..Len(argv) :
              ~(HasSrc(argv[i], "lit")
                /\ \E p \in StrParamNames(op) : HasSrc(argv[i], p))

\* C2: every call of a catalog tool runs subprocess.run on ["nmap"] followed by
\* the tool's argument list, with timeout 60 and no shell option; the call
\* asks for a shell exactly when the tool is execute_custom_nmap_command.
C2_CatalogRunsNmapListWithoutShell ==
    Called =>
        /\ op \in CatalogTools =>
              /\ Head(request.cmd) = L("nmap")
              /\ Tail(request.cmd) = Args(op, params)
              /\ request.kwargs.timeout = 60
              /\ "shell" \notin DOMAIN request.kwargs
        /\ UsesShell(request) <=> op = RawTool
C2_Witness ==
    /\ pc = "running" /\ op = "simple_scan"
    /\ params.target = Tag("target", <<";">>)
    /\ request.cmd = <<L("nmap"), L("-T4"), Tag("target", <<";">>)>>

\* C3: port_scan(target, ports) hands the executor exactly
\* ["-p", ports, "-T4", target] and returns the executor's result unchanged.
C3_PortScanVector ==
    (Called /\ op = "port_scan") =>
        /\ argv = <<L("-p"), params.ports, L("-T4"), params.target>>
        /\ Ended => (pc = "returned" /\ result = run_result)
C3_Witness ==
    /\ pc = "returned" /\ op = "port_scan"
    /\ params.ports # <<>> /\ params.target # <<>>
    /\ outcome.kind = "completed" /\ outcome.stdout # <<>>
    /\ result.text = outcome.stdout

\* C4: when subprocess.run times out, run_nmap_command returns a text that
\* begins "Error running Nmap" and holds nothing the process wrote to stdout.
C4_TimeoutTextHasNoStdout ==
    (Ended /\ op \in CatalogTools /\ outcome.cls = "TimeoutExpired") =>
        /\ run_result.kind = "return"
        /\ StartsWith(run_result.text, ERROR_PREFIX)
        /\ ~HasSrc(run_result.text, "stdout")
C4_Witness ==
    /\ Ended /\ op \in CatalogTools /\ outcome.cls = "TimeoutExpired"
    /\ outcome.stdout # <<>>
    /\ StartsWith(run_result.text, ERROR_PREFIX)

\* C5: whatever subprocess.run does, every tool returns a text to its caller
\* and no exception leaves the tool.
C5_NoExceptionLeavesATool ==
    /\ pc # "raised"
    /\ Ended => result.kind = "return"
C5_Witness ==
    /\ pc = "returned" /\ outcome.kind = "raised" /\ outcome.cls \in Faults
    /\ result.kind = "return"

\* C6: when subprocess.run fails during a catalog tool, the text the tool
\* returns is not empty and states the failure.
C6_FailureTextIsNeverEmpty ==
    (Ended /\ op \in CatalogTools /\ outcome.kind = "raised") =>
        /\ result.kind = "return"
        /\ result.text # <<>>
        /\ StartsWith(result.text, ERROR_PREFIX)

\* C7: for a limit N >= 0, vulscan_output_limit returns the first N lines of
\* the text run_nmap_command returned (all of them when there are fewer), in
\* order, joined by newlines, and nothing else.
FirstLines(lines, n) ==
    [i \in 1..(IF n < Len(lines) THEN n ELSE Len(lines)) |-> lines[i]]
C7_FirstNLines ==
    (Ended /\ op = "vulscan_output_limit" /\ params.limit >= 0) =>
        /\ result.kind = "return"
        /\ result.text =
              join(L("\n"), FirstLines(splitlines(run_result.text), params.limit))
C7_Witness ==
    /\ Ended /\ op = "vulscan_output_limit" /\ outcome.kind = "completed"
    /\ params.limit >= 1
    /\ Len(splitlines(run_result.text)) > params.limit
    /\ result.text # run_result.text

\* C8: for a completed raw command the result is the stdout section (when
\* stdout is not empty), then the stderr section (when stderr is not empty),
\* then the return-code line (when the exit code is not 0); it is the "no
\* output" sentence exactly when all three are absent, and it is never empty.
C8_RawSections ==
    (Ended /\ op = RawTool /\ outcome.kind = "completed") =>
        LET so == IF outcome.stdout = <<>> THEN <<>>
                  ELSE L("STDOUT:\n") \o outcome.stdout \o L("\n")
            se == IF outcome.stderr = <<>> THEN <<>>
                  ELSE L("STDERR:\n") \o outcome.stderr \o L("\n")
            rc == IF outcome.returncode = 0 THEN <<>>
                  ELSE L("Return Code: ")
                       \o PyStrInt(outcome.returncode, "returncode") \o L("\n")
            silent == outcome.stdout = <<>> /\ outcome.stderr = <<>>
                      /\ outcome.returncode = 0
        IN  /\ result.kind = "return"
            /\ result.text # <<>>
            /\ (result.text = NO_OUTPUT) <=> silent
            /\ ~silent => result.text = so \o se \o rc
C8_Witness ==
    /\ Ended /\ op = RawTool /\ outcome.kind = "completed"
    /\ outcome.stdout # <<>> /\ outcome.stderr # <<>> /\ outcome.returncode # 0

\* C9: when a raw command ends with a non-zero exit code, with or without
\* output, the result holds the line "Return Code: <code>" and is not the "no
\* output" sentence.
C9_NonZeroExitIsReported ==
    (Ended /\ op = RawTool /\ outcome.kind = "completed" /\ outcome.returncode # 0) =>
        /\ HasLine(result.text,
                   L("Return Code: ")
                   \o PyStrInt(outcome.returncode, "returncode") \o L("\n"))
        /\ result.text # NO_OUTPUT
C9_Witness ==
    /\ Ended /\ op = RawTool /\ outcome.kind = "completed"
    /\ outcome.returncode # 0 /\ outcome.stdout # <<>> /\ outcome.stderr = <<>>
    /\ HasSrc(result.text, "returncode")

\* C10: for every exit code of a completed process, run_nmap_command returns
\* exactly the captured stdout and no error text.
C10_ExitCodeIsNotAFailure ==
    (Ended /\ op \in CatalogTools /\ outcome.kind = "completed") =>
        /\ run_result = Return(outcome.stdout)
        /\ ~StartsWith(run_result.text, ERROR_PREFIX)
C10_Witness ==
    /\ Ended /\ op \in CatalogTools /\ outcome.kind = "completed"
    /\ outcome.returncode # 0 /\ outcome.stdout # <<>>
    /\ run_result.text = outcome.stdout

\* C11: when the timeout of a call expires, no process the call started is
\* still running once the call has returned.
C11_TimeoutLeavesNoProcess ==
    (Ended /\ outcome.cls = "TimeoutExpired") => live = {}

RAW_TIMEOUT_TEXT == L("Error: Command timed out after 120 seconds")
C13_RawFailureKinds ==
    (Ended /\ op = RawTool /\ outcome.kind = "raised") =>
        /\ result.kind = "return"
        /\ outcome.cls = "TimeoutExpired" =>
              /\ result.text = RAW_TIMEOUT_TEXT
              /\ ~HasSrc(result.text, "stdout") /\ ~HasSrc(result.text, "stderr")
        /\ outcome.cls # "TimeoutExpired" =>
              /\ StartsWith(result.text, L("Error executing command: "))
              /\ result.text # RAW_TIMEOUT_TEXT
C13_Witness ==
    /\ Ended /\ op = RawTool /\ outcome.cls = "TimeoutExpired"
    /\ outcome.stdout # <<>>
    /\ result.text = RAW_TIMEOUT_TEXT

\* C14: a call that gives no value for a parameter declared without a default
\* fails as an invalid call, and neither enters subprocess.run nor starts a
\* process.
WITH_DEFAULT ==
    {"database", "custom_template", "output_file", "output_base", "limit", "num_ports"}
C14_MissingParameterIsRejected ==
    (pc # "idle" /\ (ParamNames(op) \ given) \ WITH_DEFAULT # {}) =>
        /\ pc = "rejected"
        /\ result.kind = "invalid"
        /\ run_calls = 0
        /\ request.cmd = <<>>
        /\ live = {}
C14_Witness ==
    /\ pc = "rejected" /\ op = "port_scan" /\ given = {"target"}
    /\ params = [target |-> Tag("target", <<"a">>)]
    /\ run_calls = 0 /\ result.kind = "invalid"

\* C15: scan_multiple_hosts hands the executor one element for each
\* whitespace-separated host of hosts, in the order of hosts, each element one
\* host without whitespace; and (as the claim was worded) never the whole hosts
\* string as one element.
IsHostStart(h, i) == ~IsSpace(h[i]) /\ (i = 1 \/ IsSpace(h[i - 1]))
IsHostAt(h, i, e) ==
    /\ IsHostStart(h, i)
    /\ i + Len(e) - 1 <= Len(h)
    /\ SubSeq(h, i, i + Len(e) - 1) = e
    /\ (i + Len(e) > Len(h) \/ IsSpace(h[i + Len(e)]))
OneElementPerHost(h, list) ==
    /\ Len(list) = Cardinality({i \in 1..Len(h) : IsHostStart(h, i)})
    /\ \A k \in 1..Len(list) :
          /\ list[k] # <<>>
          /\ \A j \in 1..Len(list[k]) : ~IsSpace(list[k][j])
          /\ \E i \in 1..Len(h) : IsHostAt(h, i, list[k])
    /\ join(<<>>, list) = SelectSeq(h, LAMBDA ch : ~IsSpace(ch))
C15_WholeStringNeverOneElement ==
    (Called /\ op = "scan_multiple_hosts") =>
        /\ OneElementPerHost(params.hosts, argv)
        /\ \A k \in 1..Len(argv) : argv[k] # params.hosts
\* C15, amended: the same, the whole hosts string being one element only when
\* it holds no whitespace (it is one host).
C15_OneElementPerHost ==
    (Called /\ op = "scan_multiple_hosts") =>
        /\ OneElementPerHost(params.hosts, argv)
        /\ (\E i \in 1..Len(params.hosts) : IsSpace(params.hosts[i])) =>
              \A k \in 1..Len(argv) : argv[k] # params.hosts
C15_Witness ==
    /\ Called /\ op = "scan_multiple_hosts"
    /\ params.hosts = Tag("hosts", <<"a", " ", "b">>)
    /\ argv = <<Tag("hosts", <<"a">>), Tag("hosts", <<"b">>)>>

\* C17: the argument list of each *_no_ping tool is the argument list of its
\* base tool for the same arguments with the one element "-Pn" put right
\* before the target, nothing else added, removed or changed.
NoPingBase ==
    [ stealth_scan_no_ping |-> "stealth_scan",
      tcp_connect_scan_no_ping |-> "tcp_connect_scan",
      udp_scan_no_ping |-> "udp_scan",
      service_version_scan_no_ping |-> "service_version_detection",
      aggressive_scan_no_ping |-> "aggressive_scan",
      port_scan_no_ping |-> "port_scan",
      fin_scan_no_ping |-> "fin_scan",
      xmas_scan_no_ping |-> "xmas_scan",
      null_scan_no_ping |-> "null_scan",
      top_ports_scan_no_ping |-> "scan_top_ports" ]
InsertBeforeLast(list, e) ==
    SubSeq(list, 1, Len(list) - 1) \o <<e>> \o <<list[Len(list)]>>
C17_NoPingAddsOnlyPn ==
    (Called /\ op \in DOMAIN NoPingBase) =>
        /\ argv[Len(argv)] = params.target
        /\ argv = InsertBeforeLast(Args(NoPingBase[op], params), L("-Pn"))

\* C16: under every interleaving of calls running at the same time, each
\* call runs the command built from its own arguments and returns what the
\* tool makes of the outcome of its own process: nothing of another call
\* reaches it.
C16_CallsDoNotInterfere ==
    \A c \in Callers :
        /\ cpc[c] \in {"running", "got", "returned"} =>
              creq[c] = RequestOf(cin[c].op, cin[c].params)
        /\ cpc[c] = "returned" =>
              cres[c] = ToolResult(cin[c].op, cin[c].params, cproc[c])
\* two calls of vulscan_output_limit with different limits and different
\* outputs, one returned while the other still holds its full_output
C16_Witness ==
    /\ cpc[1] = "returned" /\ cpc[2] = "got"
    /\ cin[1].op = "vulscan_output_limit" /\ cin[2].op = "vulscan_output_limit"
    /\ cin[1].params.limit = 1 /\ cin[2].params.limit = 0
    /\ cproc[1].returncode = 1 /\ cproc[2].returncode = 0
    /\ cres[1] = Return(Tag("stdout", <<"x">>))

====
